---- MODULE Spec2Model ----
(***************************************************************************)
(* Card-region detection and rectification (CardDetector) of the          *)
(* business_card package, modelled as a state machine.                     *)
(*                                                                         *)
(* An image is represented by its shape <<h, w>> (None and the empty       *)
(* array are separate values).  The pixel content is represented by what   *)
(* the OpenCV pipeline extracts from it: for every strategy, the list of   *)
(* external contours of its mask, each contour carrying twice its          *)
(* enclosed area (cv2.contourArea is a multiple of 0.5) and the polygon    *)
(* cv2.approxPolyDP yields for it.  Points are <<x, y>> pairs.             *)
(* Ratios are held in percent, so 0.05 is 5 and 0.85 is 85.                *)
(*                                                                         *)
(* Spec is one caller at a time: detect, detect_from_array, the helpers    *)
(* _find_card_contour and _order_points called on their own, and           *)
(* PaddleOCRBackend.extract, which runs detect and hands the crop to the   *)
(* engine through a temporary file.  SpecConcurrent is two threads inside  *)
(* detect_from_array of one instance, sharing its configuration.           *)
(* SpecPipeline is BusinessCardParser (parse, parse_ocr_only) over an OCR  *)
(* backend and an extractor, and BatchProcessor.process looping over it.   *)
(***************************************************************************)
EXTENDS Integers, Sequences, FiniteSets, TLC

VARIABLES
    cfg,              \* the detector's configuration (set by __init__)
    pc,               \* position: "idle", "strategies", "selecting",
                      \* "fallback", "done"
    entry,            \* operation called: "detect", "detect_from_array",
                      \* "_find_card_contour", or "none"
    arg_fallback,     \* fallback_resize as given to the public operation
    decoded,          \* detect: what cv2.imread returned (an Image value)
    img,              \* detect_from_array: its img argument (an Image value)
    fallback_resize,  \* detect_from_array: its fallback_resize parameter
    scale,            \* <<num, den>> of scale; <<1, 1>> when scale == 1.0
    resized,          \* shape <<h, w>> of the analysis image
    idx,              \* index (1..4) of the next strategy of the for loop
    evaluated,        \* names of the strategies evaluated so far, in order
    yielded,          \* per evaluated strategy: did the selector return a quad
    contours,         \* the contours list the selector last chose from
    card_contour,     \* the selector's last result (<<>>: None)
    mapped,           \* the contour handed to _perspective_transform (<<>>: none)
    rectified,        \* <<w, h>> of _perspective_transform's output (<<>>: none)
    rectify_on,       \* the image _perspective_transform was applied to
    resizes,          \* every cv2.resize target <<w, h>> requested, in order
    result,           \* outcome of the call (a Result value)
    pts,              \* _order_points: its pts argument (<<>>: not called)
    ordered,          \* _order_points: the rect it returned (<<>>: not called)
    scene,            \* what the image of the call shows ("any", "rectangle")
    ocr,              \* PaddleOCRBackend.extract: position, temp file, outcome
    calls,            \* per thread: the frame of its call on the shared instance
    parser,           \* BusinessCardParser: the call of parse or parse_ocr_only
    batch             \* BatchProcessor.process: its loop, results and errors

vars == <<cfg, pc, entry, arg_fallback, decoded, img, fallback_resize, scale,
          resized, idx, evaluated, yielded, contours, card_contour, mapped,
          rectified, rectify_on, resizes, result, pts, ordered, scene, ocr,
          calls, parser, batch>>

----------------------------------------------------------------------------
(* Program constants *)

MAX_PROCESS_DIM == 1500
MAX_OCR_DIM == 2000
MIN_WIDTH == 100
MIN_HEIGHT == 60

(* Bounds of the model *)

\* contours in the list of a direct _find_card_contour call
MaxContours == 2

\* contours in the mask of one strategy during a detection
MaxMaskContours == 1

\* pixels by which dilation grows the outline of the rectangle scene
MaxGrow == 8

----------------------------------------------------------------------------
(* Integer helpers *)

Max(a, b) == IF a >= b THEN a ELSE b

RECURSIVE Pow2(_)
Pow2(n) == IF n <= 0 THEN 1 ELSE 2 * Pow2(n - 1)

RECURSIVE Log2Floor(_)
Log2Floor(k) == IF k < 2 THEN 0 ELSE 1 + Log2Floor(k \div 2)

\* the float32 nearest to the integer n >= 0 (24-bit significand, ties to
\* even)
Float32(n) ==
    IF n < 16777216 THEN n
    ELSE LET q  == Pow2(Log2Floor(n) - 23)
             lo == (n \div q) * q
             r  == n - lo
         IN  IF 2 * r < q THEN lo
             ELSE IF 2 * r > q THEN lo + q
             ELSE IF (lo \div q) % 2 = 0 THEN lo ELSE lo + q

\* the float32 square root of the float32 value v is at least the integer
\* m >= 1: the exact root is at least m, or it lies less than half a unit
\* in the last place below m and is rounded up to m (m > 4096 only)
SqrtAtLeast(m, v) ==
    \/ m * m <= v
    \/ /\ m > 4096
       /\ m * m - v <= m
       /\ (m * m - v) * Pow2(23 - Log2Floor(m - 1)) <= m - 1

\* x.dot(x) for the float32 vector x = (dx, dy), as np.linalg.norm takes
\* it: each product is rounded to float32, and so is their sum
Dot32(dx, dy) == Float32(Float32(dx * dx) + Float32(dy * dy))

\* int(sqrt(v)) for a float32 value v, the root taken in float32 and
\* searched in lo..hi
RECURSIVE SqrtSearch(_, _, _)
SqrtSearch(v, lo, hi) ==
    IF lo >= hi THEN lo
    ELSE LET mid == (lo + hi + 1) \div 2
         IN  IF SqrtAtLeast(mid, v) THEN SqrtSearch(v, mid, hi)
             ELSE SqrtSearch(v, lo, mid - 1)

\* int(sqrt(v)) for the float32 squared norm v: the float32 square root,
\* rounded to nearest, then truncated
ISqrt(v) == SqrtSearch(v, 0, 46340)

----------------------------------------------------------------------------
(* Floating-point arithmetic of the size governor, on integers.           *)
(* A scale K / m with 0 < K < m is the double nearest to K/m.             *)

\* exponent t >= 1 with K/m in [2^-t, 2^-(t-1))
RECURSIVE ScaleExp(_, _, _)
ScaleExp(K, m, t) == IF K * Pow2(t) >= m THEN t ELSE ScaleExp(K, m, t + 1)

\* (K * 2^q) mod m
RECURSIVE RemPow(_, _, _)
RemPow(r, m, q) == IF q = 0 THEN r ELSE RemPow((2 * r) % m, m, q - 1)

\* int(w * (K / m)) in double precision: the truncated exact quotient,
\* except that when w*K/m is an integer k and the double K/m was rounded
\* down far enough, the product lands below k and truncates to k - 1.
ScaleDim(w, K, m) ==
    LET x == w * K
        k == x \div m
    IN  IF x % m # 0 \/ w = 0 THEN k
        ELSE LET t == ScaleExp(K, m, 1)
                 L == Log2Floor(k)
                 R == RemPow(K % m, m, 52 + t)
                 lhs == (IF Pow2(L) = k THEN 4 ELSE 2) * w * R
             IN  IF R = 0 \/ 2 * R >= m THEN k
                 ELSE IF lhs > m * Pow2(t + L) THEN k - 1 ELSE k

\* long division of (c * 2^n) by S: <<quotient, remainder>>
RECURSIVE ShiftDiv(_, _, _, _)
ShiftDiv(q, r, S, n) ==
    IF n = 0 THEN <<q, r>>
    ELSE IF 2 * r >= S THEN ShiftDiv(2 * q + 1, 2 * r - S, S, n - 1)
         ELSE ShiftDiv(2 * q, 2 * r, S, n - 1)

\* 24-bit significand S of float32(K / m): float32(K/m) = S * 2^-(23+t)
Mant24(K, m) ==
    LET t == ScaleExp(K, m, 1)
        d == ShiftDiv(0, K, m, 23 + t)
    IN  IF 2 * d[2] >= m THEN d[1] + 1 ELSE d[1]

\* int32(float32(c) / float32(K / m)): one coordinate mapped back to the
\* original resolution (float32 division, round to nearest, then truncation)
ScaleBack(c, K, m) ==
    LET t == ScaleExp(K, m, 1)
        S == Mant24(K, m)
        d == ShiftDiv(0, c, S, 23 + t)
        q == d[1]
        r == d[2]
    IN  IF c = 0 \/ r = 0 \/ q = 0 THEN q
        ELSE IF S - r <= S \div Pow2(24 - Log2Floor(q)) THEN q + 1 ELSE q

----------------------------------------------------------------------------
(* Contour Candidate Selector: _find_card_contour *)

\* cv2.isContourConvex on the approximated polygon: the turns of all
\* successive edge pairs have the same strict orientation
Cross(p, q, r) == (q[1] - p[1]) * (r[2] - q[2]) - (q[2] - p[2]) * (r[1] - q[1])

IsContourConvex(poly) ==
    LET n == Len(poly)
        turn(i) == Cross(poly[i], poly[(i % n) + 1], poly[((i + 1) % n) + 1])
    IN  /\ n >= 3
        /\ \/ \A i \in 1..n : turn(i) > 0
           \/ \A i \in 1..n : turn(i) < 0

\* the area filter with exclusive bounds
AreaDiscardedExclusive(area2, img_area, c) ==
    \/ area2 * 100 <= 2 * img_area * c.min_area_ratio
    \/ area2 * 100 >= 2 * img_area * c.max_area_ratio

\* line 232: "if area < min_area or area > max_area: continue", with
\* min_area = img_area * min_area_ratio and max_area = img_area * max_area_ratio
AreaDiscarded(area2, img_area, c) ==
    \/ area2 * 100 < 2 * img_area * c.min_area_ratio
    \/ area2 * 100 > 2 * img_area * c.max_area_ratio

\* the shape filter without the convexity check
IsFourVertices(approx) == Len(approx) = 4

\* lines 241-243: exactly 4 vertices after approximation, and convex
IsQuadrilateral(approx) == Len(approx) = 4 /\ IsContourConvex(approx)

\* lines 228-244: the candidates list, in the order of the input contours
Candidates(cs, img_area, c) ==
    SelectSeq(cs, LAMBDA k : /\ ~AreaDiscarded(k.area2, img_area, c)
                             /\ IsQuadrilateral(k.approx))

\* line 250: candidates.sort(key=area, reverse=True); list.sort is stable and
\* reverse=True keeps the original order of equal keys
\* a sort that puts a later contour before an earlier one of equal area
RECURSIVE InsertSortedUnstable(_, _)
InsertSortedUnstable(s, k) ==
    IF s = <<>> THEN <<k>>
    ELSE IF Head(s).area2 > k.area2
         THEN <<Head(s)>> \o InsertSortedUnstable(Tail(s), k)
         ELSE <<k>> \o s

RECURSIVE InsertSorted(_, _)
InsertSorted(s, k) ==
    IF s = <<>> THEN <<k>>
    ELSE IF Head(s).area2 >= k.area2 THEN <<Head(s)>> \o InsertSorted(Tail(s), k)
         ELSE <<k>> \o s

RECURSIVE SortByAreaDesc(_)
SortByAreaDesc(s) ==
    IF s = <<>> THEN <<>>
    ELSE InsertSorted(SortByAreaDesc(SubSeq(s, 1, Len(s) - 1)), s[Len(s)])

\* None, as returned in place of a contour
NoContour == <<>>

\* the selector returning the first candidate without sorting
FindCardContourUnsorted(cs, shape, c) ==
    LET cands == Candidates(cs, shape[1] * shape[2], c)
    IN  IF cands = <<>> THEN NoContour
        ELSE cands[1].approx

\* _find_card_contour(contours, img_shape): the polygon, or None
FindCardContour(cs, shape, c) ==
    LET cands == Candidates(cs, shape[1] * shape[2], c)
    IN  IF cands = <<>> THEN NoContour
        ELSE SortByAreaDesc(cands)[1].approx

----------------------------------------------------------------------------
(* Perspective Rectifier: _order_points and _perspective_transform *)

\* np.argmin / np.argmax: the first index holding the extreme value
ArgMin(v) == CHOOSE i \in 1..Len(v) :
                /\ \A j \in 1..Len(v) : v[i] <= v[j]
                /\ \A j \in 1..(i - 1) : v[j] > v[i]

\* the first index holding the least value, in place of the greatest
ArgMaxOfLeast(v) == CHOOSE i \in 1..Len(v) :
                       /\ \A j \in 1..Len(v) : v[i] <= v[j]
                       /\ \A j \in 1..(i - 1) : v[j] > v[i]

ArgMax(v) == CHOOSE i \in 1..Len(v) :
                /\ \A j \in 1..Len(v) : v[i] >= v[j]
                /\ \A j \in 1..(i - 1) : v[j] < v[i]

\* the ordering with the difference taken as x - y
OrderPointsMirrored(points) ==
    LET s == [i \in 1..Len(points) |-> points[i][1] + points[i][2]]
        d == [i \in 1..Len(points) |-> points[i][1] - points[i][2]]
    IN  <<points[ArgMin(s)], points[ArgMin(d)],
          points[ArgMax(s)], points[ArgMax(d)]>>

\* lines 315-327: s = x + y, d = np.diff(pts, axis=1) = y - x
OrderPoints(points) ==
    LET s == [i \in 1..Len(points) |-> points[i][1] + points[i][2]]
        d == [i \in 1..Len(points) |-> points[i][2] - points[i][1]]
    IN  <<points[ArgMin(s)], points[ArgMin(d)],
          points[ArgMax(s)], points[ArgMax(d)]>>

\* int(np.linalg.norm(p - q)) for float32 points p and q with integer
\* coordinates: the difference is exact, the norm is sqrt(x.dot(x))
Norm(p, q) == ISqrt(Dot32(p[1] - q[1], p[2] - q[2]))

\* lines 271-282: int(max(norm(a - b), norm(c - d)))
EdgeLen(a, b, c, d) == Max(Norm(a, b), Norm(c, d))

\* the minimum width and the minimum height exchanged
ClampMinTransposed(width, height) ==
    <<Max(width, MIN_HEIGHT), Max(height, MIN_WIDTH)>>

\* lines 284-286: "Ensure minimum dimensions"
ClampMin(width, height) == <<Max(width, MIN_WIDTH), Max(height, MIN_HEIGHT)>>

\* the warped image with its width and height exchanged
PerspectiveTransformTransposed(contour) ==
    LET o == OrderPoints(contour)
    IN  ClampMin(EdgeLen(o[1], o[4], o[2], o[3]), EdgeLen(o[1], o[2], o[3], o[4]))

\* lines 266-303: the size <<width, height>> of the warped image
PerspectiveTransform(contour) ==
    LET o == OrderPoints(contour)
    IN  ClampMin(EdgeLen(o[1], o[2], o[3], o[4]), EdgeLen(o[1], o[4], o[2], o[3]))

----------------------------------------------------------------------------
(* Values *)

NoneImage == [kind |-> "None", h |-> 0, w |-> 0]

Array(h, w) == [kind |-> "array", h |-> h, w |-> w]

\* img.size == 0 (the array has h * w * channels elements)
IsEmpty(image) == image.h * image.w = 0

Pending == [kind |-> "pending", w |-> 0, h |-> 0]

ReturnNone == [kind |-> "None", w |-> 0, h |-> 0]

\* cv2.error leaving the call
Raised == [kind |-> "Raise", w |-> 0, h |-> 0]

ReturnImage(size) == [kind |-> "Image", w |-> size[1], h |-> size[2]]

\* extract before it is called: no temporary file, engine not yet invoked
OcrIdle == [pc |-> "idle", auto_crop |-> FALSE, cropped |-> "unset",
            temp |-> "none", ocr_input |-> "none",
            predicts |-> 0, outcome |-> "pending"]

\* the parser before it is called; log lists the backends called so far
ParserIdle == [pc |-> "idle", entry |-> "none", path |-> "none",
               text |-> <<>>, log |-> <<>>,
               outcome |-> [kind |-> "pending", exc |-> "none", msg |-> "none"]]

\* process before it is called; attempts lists the paths parse was called
\* with, outcomes the kind of list each finished iteration appended to
BatchIdle == [pc |-> "idle", paths |-> <<>>, i |-> 1, results |-> <<>>,
              errors |-> <<>>, attempts |-> <<>>, outcomes |-> <<>>,
              exc |-> "none"]

\* the threads calling one CardDetector instance at the same time
Threads == {"a", "b"}

\* the frame of a thread that is not inside a call: the locals of
\* detect_from_array (scene stands for the pixels of img: the contours of
\* the mask of each strategy), the thresholds _preprocess_canny has read,
\* and the locals of _find_card_contour (the ratios and the factor as read
\* from self, the loop index k, the candidates); -1 is "not read yet"
NoCall == [pc |-> "idle", built |-> <<>>, img |-> NoneImage, scene |-> <<>>,
           fallback_resize |-> FALSE, scale |-> <<1, 1>>, resized |-> <<0, 0>>,
           idx |-> 1, masks |-> <<>>, result |-> Pending,
           canny_low |-> -1, canny_high |-> -1, contours |-> <<>>,
           min_area_ratio |-> -1, max_area_ratio |-> -1, epsilon_factor |-> -1,
           k |-> 1, candidates |-> <<>>]

\* the strategies list with two strategies swapped
StrategiesSwapped == <<"_preprocess_white_region", "_preprocess_canny",
                       "_preprocess_adaptive", "_preprocess_morph">>

\* lines 101-106: the strategies list
Strategies == <<"_preprocess_white_region", "_preprocess_adaptive",
                "_preprocess_canny", "_preprocess_morph">>

\* lines 30-34: the defaults of CardDetector()
DefaultConfiguration ==
    [min_area_ratio |-> 5, max_area_ratio |-> 85, canny_low |-> 50,
     canny_high |-> 150, epsilon_factor |-> 2]

\* the defaults and tests/test_preprocessing.py 22-27 (custom)
Configurations ==
    { DefaultConfiguration,
      [min_area_ratio |-> 20, max_area_ratio |-> 80, canny_low |-> 30,
       canny_high |-> 100, epsilon_factor |-> 2] }

----------------------------------------------------------------------------
(* Inputs of the model *)

\* shapes <<h, w>> of the decoded images given to the detector
InputShapes ==
    { <<480, 640>>, <<600, 800>>, <<1501, 1>>, <<1501, 1000>>, <<2000, 1600>>,
      <<2105, 1000>>,
      <<2147, 1200>>,
      <<3000, 4000>>, <<4000, 5000>>, <<1000, 5000>>, <<5000, 1000>> }

\* arguments of detect_from_array: None, the empty array, decoded images
InputImages ==
    {NoneImage, Array(0, 0)} \cup {Array(s[1], s[2]) : s \in InputShapes}

\* what cv2.imread returns: None, or the decoded image
DecodedImages == {NoneImage} \cup {Array(s[1], s[2]) : s \in InputShapes}

\* what an image can show: anything, or the light rectangle on a dark
\* background of tests/test_preprocessing.py 57-61 (600 x 800 only)
Scenes(image) ==
    IF image = Array(600, 800) THEN {"any", "rectangle"} ELSE {"any"}

\* shapes <<h, w>> of the analysis images of direct selector calls
AnalysisShapes == { <<100, 100>>, <<480, 640>>, <<1200, 1500>>, <<300, 1500>> }

\* a contour as the selector sees it: twice cv2.contourArea, and the polygon
\* cv2.approxPolyDP(contour, epsilon_factor * perimeter, True) returns
Contour(area2, approx) == [area2 |-> area2, approx |-> approx]

Rect(x0, y0, x1, y1) == <<<<x1, y1>>, <<x0, y1>>, <<x0, y0>>, <<x1, y0>>>>

\* twice the area that is pct percent of an H x W image
Area2(pct, H, W) == (2 * pct * H * W) \div 100

\* contours a mask of an H x W analysis image can contain
Catalogue(H, W, c) ==
    LET card    == Rect(W \div 8, H \div 6, (7 * W) \div 8, (5 * H) \div 6)
        t       == (IF H < W THEN H ELSE W) \div 12
        tilted  == << <<(7 * W) \div 8, H \div 6 + t>>,
                      <<(7 * W) \div 8 - t, (5 * H) \div 6>>,
                      <<W \div 8, (5 * H) \div 6 - t>>,
                      <<W \div 8 + t, H \div 6>> >>
        small   == Rect(W \div 4, H \div 4, W \div 2, H \div 2)
        tiny    == Rect(W \div 4 + 1, H \div 4, W \div 2, H \div 2)
        large   == Rect(W \div 25, H \div 25, (24 * W) \div 25, (24 * H) \div 25)
        huge    == Rect(W \div 25 - 1, H \div 25, (24 * W) \div 25, (24 * H) \div 25)
        strip   == Rect(W \div 30, (7 * H) \div 15, (29 * W) \div 30, (8 * H) \div 15)
        tri     == << <<W \div 10, H \div 10>>, <<(9 * W) \div 10, H \div 10>>,
                      <<W \div 2, (9 * H) \div 10>> >>
        penta   == << <<W \div 2, H \div 10>>, <<(9 * W) \div 10, (4 * H) \div 10>>,
                      <<(7 * W) \div 10, (9 * H) \div 10>>,
                      <<(3 * W) \div 10, (9 * H) \div 10>>,
                      <<W \div 10, (4 * H) \div 10>> >>
        dart    == << <<W \div 10, H \div 10>>, <<W \div 2, (4 * H) \div 10>>,
                      <<(9 * W) \div 10, H \div 10>>, <<W \div 2, (9 * H) \div 10>> >>
        diamond == << <<W \div 2, 0>>, <<W - 1, H \div 2>>,
                      <<W \div 2, H - 1>>, <<0, H \div 2>> >>
        mid     == (c.min_area_ratio + c.max_area_ratio) \div 2
    IN  { Contour(Area2(mid, H, W), card),
          Contour(Area2(mid, H, W), tilted),
          Contour(Area2(50, H, W), diamond),
          Contour(Area2(c.min_area_ratio, H, W), small),
          Contour(Area2(c.min_area_ratio, H, W) - 1, tiny),
          Contour(Area2(c.max_area_ratio, H, W), large),
          Contour(Area2(c.max_area_ratio, H, W) + 1, huge),
          Contour(Area2(c.min_area_ratio + 1, H, W), strip),
          Contour(Area2(mid, H, W), tri),
          Contour(Area2(mid, H, W), penta),
          Contour(Area2(mid - 1, H, W), dart) }

\* the lists cv2.findContours can return: up to MaxContours contours
RECURSIVE ContourLists(_, _)
ContourLists(S, n) ==
    IF n = 0 THEN {<<>>}
    ELSE LET shorter == ContourLists(S, n - 1)
         IN  shorter \cup {Append(l, k) : l \in {x \in shorter : Len(x) = n - 1}, k \in S}

\* the mask of a strategy on the rectangle scene holds one contour: the
\* outline of img[100:400, 100:700], grown by g pixels on every side by
\* the dilations that follow the edge detection (lines 155-156, 171-173,
\* 205-207)
Outline(g) ==
    Contour(2 * (599 + 2 * g) * (299 + 2 * g),
            Rect(100 - g, 100 - g, 699 + g, 399 + g))

RectangleMasks == { <<Outline(g)>> : g \in 0..MaxGrow }

\* the contour lists the mask of one strategy can give
Masks(sc, shape, c) ==
    IF sc = "rectangle" THEN RectangleMasks
    ELSE ContourLists(Catalogue(shape[1], shape[2], c), MaxMaskContours)

\* the point arrays given to direct _order_points calls: the rectangle of
\* tests/test_preprocessing.py 79, a square standing on a corner, a
\* rectangle turned a little, a quadrilateral with two vertices on one
\* anti-diagonal, a dart, and two turned cards on a 4000 x 5000 image whose
\* long edges measure a little less than 4161 and a little less than 4142
PointSets ==
    { << <<100, 100>>, <<300, 100>>, <<300, 200>>, <<100, 200>> >>,
      << <<200, 100>>, <<300, 200>>, <<200, 300>>, <<100, 200>> >>,
      << <<120, 100>>, <<320, 130>>, <<300, 230>>, <<100, 200>> >>,
      << <<100, 300>>, <<300, 100>>, <<0, 0>>, <<100, 100>> >>,
      << <<0, 0>>, <<400, 100>>, <<100, 100>>, <<100, 400>> >>,
      << <<600, 0>>, <<3728, 2744>>, <<3228, 3314>>, <<100, 570>> >>,
      << <<0, 0>>, <<4141, 91>>, <<4141, 791>>, <<0, 700>> >> }

\* every order the four points of q can come in
Orders(q) == { [i \in 1..4 |-> q[f[i]]] : f \in Permutations(1..4) }

----------------------------------------------------------------------------
(* detect_from_array, piece by piece *)

\* the input check without the size test
RejectsNoneOnly(image) == image.kind = "None"

\* line 87: "if img is None or img.size == 0: return None"
RejectsInput(image) == image.kind = "None" \/ IsEmpty(image)

\* the scale taken from the width alone
AnalysisScaleOfWidth(h, w) ==
    IF w > MAX_PROCESS_DIM THEN <<MAX_PROCESS_DIM, w>>
    ELSE <<1, 1>>

\* lines 92-94: scale as <<numerator, denominator>>; <<1, 1>> is 1.0
AnalysisScale(h, w) ==
    IF Max(h, w) > MAX_PROCESS_DIM THEN <<MAX_PROCESS_DIM, Max(h, w)>>
    ELSE <<1, 1>>

\* line 95: (new_w, new_h) = (int(orig_w * scale), int(orig_h * scale))
AnalysisTarget(h, w) ==
    <<ScaleDim(w, MAX_PROCESS_DIM, Max(h, w)), ScaleDim(h, MAX_PROCESS_DIM, Max(h, w))>>

\* cv2.resize raises cv2.error for a target with a dimension of 0
ResizeFails(target) == target[1] <= 0 \/ target[2] <= 0

\* the contour handed on as found on the analysis image
MapBackUnscaled(contour, sc) == contour

\* the contour divided by the scale twice
MapBackTwice(contour, sc) ==
    IF sc = <<1, 1>> THEN contour
    ELSE [i \in 1..Len(contour) |->
            <<ScaleBack(ScaleBack(contour[i][1], sc[1], sc[2]), sc[1], sc[2]),
              ScaleBack(ScaleBack(contour[i][2], sc[1], sc[2]), sc[1], sc[2])>>]

\* lines 118-121: (card_contour.astype(float32) / scale).astype(int32)
MapBack(contour, sc) ==
    IF sc = <<1, 1>> THEN contour
    ELSE [i \in 1..Len(contour) |->
            <<ScaleBack(contour[i][1], sc[1], sc[2]),
              ScaleBack(contour[i][2], sc[1], sc[2])>>]

\* the size test looking at the width only
TooWide(size) == size[1] > MAX_OCR_DIM

\* line 127: "if max(crop_h, crop_w) > self.MAX_OCR_DIM"
TooLarge(size) == Max(size[1], size[2]) > MAX_OCR_DIM

\* lines 128-130 and 143-144: (int(w * s), int(h * s)), s = MAX_OCR_DIM / max
OcrTarget(size) ==
    <<ScaleDim(size[1], MAX_OCR_DIM, Max(size[1], size[2])),
      ScaleDim(size[2], MAX_OCR_DIM, Max(size[1], size[2]))>>

\* line 142: "if fallback_resize and max(orig_h, orig_w) > self.MAX_OCR_DIM"
FallbackApplies(fb, image) == fb /\ TooLarge(<<image.w, image.h>>)

\* the fallback check moved in front of the strategies
FallbackFirst(fb, image) ==
    IF FallbackApplies(fb, image) THEN "fallback" ELSE "strategies"

\* lines 100-108: after the size governor the for loop over the strategies
\* starts, whatever fallback_resize is
AfterGovernor(fb, image) == "strategies"

\* the for loop giving up after the second strategy
LoopStopsEarly(i) == i < 2

\* line 108: "for strategy in strategies" has a further strategy after
\* the one of index i
LoopContinues(i) == i < Len(Strategies)

\* detect leaving detect_from_array's fallback_resize at its default
DetectDropsFlag(fb) == FALSE

\* line 71: detect hands its fallback_resize on to detect_from_array
DetectPasses(fb) == fb

----------------------------------------------------------------------------
(* The state machine *)

Init ==
    /\ cfg \in Configurations
    /\ pc = "idle"
    /\ entry = "none"
    /\ arg_fallback = FALSE
    /\ decoded = NoneImage
    /\ img = NoneImage
    /\ fallback_resize = FALSE
    /\ scale = <<1, 1>>
    /\ resized = <<0, 0>>
    /\ idx = 1
    /\ evaluated = <<>>
    /\ yielded = <<>>
    /\ contours = <<>>
    /\ card_contour = NoContour
    /\ mapped = NoContour
    /\ rectified = <<>>
    /\ rectify_on = NoneImage
    /\ resizes = <<>>
    /\ result = Pending
    /\ pts = <<>>
    /\ ordered = <<>>
    /\ scene = "any"
    /\ ocr = OcrIdle
    /\ calls = [t \in Threads |-> NoCall]
    /\ parser = ParserIdle
    /\ batch = BatchIdle

\* lines 87-98 of detect_from_array(image, fb): the input check and the
\* analysis-side size governor
Enter(image, fb) ==
    /\ img' = image
    /\ fallback_resize' = fb
    /\ idx' = 1
    /\ evaluated' = <<>>
    /\ yielded' = <<>>
    /\ contours' = <<>>
    /\ card_contour' = NoContour
    /\ mapped' = NoContour
    /\ rectified' = <<>>
    /\ rectify_on' = NoneImage
    /\ pts' = <<>>
    /\ ordered' = <<>>
    /\ IF RejectsInput(image)
       THEN /\ pc' = "done"
            /\ result' = ReturnNone
            /\ scale' = <<1, 1>>
            /\ resized' = <<0, 0>>
            /\ resizes' = <<>>
       ELSE \E sc \in {AnalysisScale(image.h, image.w)} :
                /\ scale' = sc
                /\ IF sc = <<1, 1>>
                   THEN /\ resized' = <<image.h, image.w>>
                        /\ resizes' = <<>>
                        /\ pc' = AfterGovernor(fb, image)
                        /\ result' = Pending
                   ELSE \E target \in {AnalysisTarget(image.h, image.w)} :
                        /\ resizes' = <<target>>
                        /\ IF ResizeFails(target)
                           THEN /\ resized' = <<0, 0>>
                                /\ pc' = "done"
                                /\ result' = Raised
                           ELSE /\ resized' = <<target[2], target[1]>>
                                /\ pc' = AfterGovernor(fb, image)
                                /\ result' = Pending

\* the variables of one detector call
callvars == <<pc, entry, arg_fallback, decoded, img, fallback_resize, scale,
              resized, idx, evaluated, yielded, contours, card_contour, mapped,
              rectified, rectify_on, resizes, result, pts, ordered, scene>>

\* detect_from_array(img, fallback_resize) called directly
DetectFromArray ==
    /\ pc = "idle"
    /\ ocr.pc = "idle"
    /\ \E image \in InputImages, fb \in BOOLEAN :
       \E sc \in Scenes(image) :
         /\ entry' = "detect_from_array"
         /\ arg_fallback' = fb
         /\ decoded' = NoneImage
         /\ scene' = sc
         /\ Enter(image, fb)
    /\ UNCHANGED <<cfg, ocr>>
    /\ UNCHANGED <<calls, parser, batch>>

\* detect(image_path, fallback_resize), lines 66-71: cv2.imread returns None
\* for a file it cannot decode, a non-empty array otherwise
DetectCall(image, fb, sc) ==
    /\ entry' = "detect"
    /\ arg_fallback' = fb
    /\ decoded' = image
    /\ scene' = sc
    /\ IF image.kind = "None"
       THEN /\ pc' = "done"
            /\ result' = ReturnNone
            /\ img' = NoneImage
            /\ fallback_resize' = FALSE
            /\ scale' = <<1, 1>>
            /\ resized' = <<0, 0>>
            /\ idx' = 1
            /\ evaluated' = <<>>
            /\ yielded' = <<>>
            /\ contours' = <<>>
            /\ card_contour' = NoContour
            /\ mapped' = NoContour
            /\ rectified' = <<>>
            /\ rectify_on' = NoneImage
            /\ resizes' = <<>>
            /\ pts' = <<>>
            /\ ordered' = <<>>
       ELSE Enter(image, DetectPasses(fb))

\* detect called directly
Detect ==
    /\ pc = "idle"
    /\ ocr.pc = "idle"
    /\ \E image \in DecodedImages, fb \in BOOLEAN :
       \E sc \in Scenes(image) : DetectCall(image, fb, sc)
    /\ UNCHANGED <<cfg, ocr>>
    /\ UNCHANGED <<calls, parser, batch>>

\* line 109-115: the selector's answer for the contours of one mask
\* ("if contours:" skips the selector for an empty list)
Select(cs, shape, c) ==
    IF cs = <<>> THEN NoContour ELSE FindCardContour(cs, shape, c)

\* lines 108-112: the next strategy of "for strategy in strategies" builds
\* its mask and cv2.findContours lists the external contours of the mask
FindContours ==
    /\ pc = "strategies"
    /\ \E cs \in Masks(scene, resized, cfg) : contours' = cs
    /\ pc' = "selecting"
    /\ UNCHANGED <<cfg, entry, arg_fallback, decoded, img, fallback_resize,
                   scale, resized, idx, evaluated, yielded, card_contour,
                   mapped, rectified, rectify_on, resizes, result, pts,
                   ordered, scene, ocr>>
    /\ UNCHANGED <<calls, parser, batch>>

\* lines 114-137: the rest of the iteration when the selector returns a
\* quadrilateral: remap, rectify, clamp, return
StrategySucceeds ==
    /\ pc = "selecting"
    /\ \E card \in {Select(contours, resized, cfg)} :
         /\ card # NoContour
         /\ \E quad \in {MapBack(card, scale)} :
            \E cropped \in {PerspectiveTransform(quad)} :
              /\ contours' = contours
              /\ evaluated' = Append(evaluated, Strategies[idx])
              /\ yielded' = Append(yielded, TRUE)
              /\ card_contour' = card
              /\ mapped' = quad
              /\ rectified' = cropped
              /\ rectify_on' = img
              /\ pts' = quad
              /\ ordered' = OrderPoints(quad)
              /\ IF TooLarge(cropped)
                 THEN \E target \in {OcrTarget(cropped)} :
                      /\ resizes' = Append(resizes, target)
                      /\ result' = IF ResizeFails(target) THEN Raised
                                   ELSE ReturnImage(target)
                 ELSE /\ resizes' = resizes
                      /\ result' = ReturnImage(cropped)
              /\ pc' = "done"
    /\ UNCHANGED <<cfg, entry, arg_fallback, decoded, img, fallback_resize,
                   scale, resized, idx, scene, ocr>>
    /\ UNCHANGED <<calls, parser, batch>>

\* lines 114-116: the rest of the iteration when the mask has no contours
\* or the selector returns None: on to the next strategy, or out of the
\* loop; contours keeps the list of this iteration
StrategyFails ==
    /\ pc = "selecting"
    /\ \E card \in {Select(contours, resized, cfg)} :
         /\ card = NoContour
         /\ contours' = contours
         /\ evaluated' = Append(evaluated, Strategies[idx])
         /\ yielded' = Append(yielded, FALSE)
         /\ card_contour' = card
    /\ IF LoopContinues(idx)
       THEN idx' = idx + 1 /\ pc' = "strategies"
       ELSE idx' = idx /\ pc' = "fallback"
    /\ UNCHANGED <<cfg, entry, arg_fallback, decoded, img, fallback_resize,
                   scale, resized, mapped, rectified, rectify_on, resizes, result,
                   pts, ordered, scene, ocr>>
    /\ UNCHANGED <<calls, parser, batch>>

\* _find_card_contour(contours, img_shape) called on its own, lines 222-251
\* (as tests/test_preprocessing.py 90-110 do)
FindCardContourCall ==
    /\ pc = "idle"
    /\ ocr.pc = "idle"
    /\ \E s \in AnalysisShapes :
       \E cs \in ContourLists(Catalogue(s[1], s[2], cfg), MaxContours) :
         /\ entry' = "_find_card_contour"
         /\ resized' = s
         /\ contours' = cs
         /\ card_contour' = FindCardContour(cs, s, cfg)
    /\ pc' = "done"
    /\ UNCHANGED <<cfg, arg_fallback, decoded, img, fallback_resize, scale,
                   idx, evaluated, yielded, mapped, rectified, rectify_on,
                   resizes, result, pts, ordered, scene, ocr>>
    /\ UNCHANGED <<calls, parser, batch>>

\* _order_points(pts) called on its own, lines 315-327 (as
\* tests/test_preprocessing.py 74-88 do), on four points in any order
OrderPointsCall ==
    /\ pc = "idle"
    /\ ocr.pc = "idle"
    /\ \E q \in PointSets :
       \E p \in Orders(q) :
         /\ entry' = "_order_points"
         /\ pts' = p
         /\ ordered' = OrderPoints(p)
    /\ pc' = "done"
    /\ UNCHANGED <<cfg, arg_fallback, decoded, img, fallback_resize, scale,
                   resized, idx, evaluated, yielded, contours, card_contour,
                   mapped, rectified, rectify_on, resizes, result, scene, ocr>>
    /\ UNCHANGED <<calls, parser, batch>>

\* lines 139-148: the fallback policy, after the loop ran out
Fallback ==
    /\ pc = "fallback"
    /\ IF FallbackApplies(fallback_resize, img)
       THEN \E target \in {OcrTarget(<<img.w, img.h>>)} :
            /\ resizes' = Append(resizes, target)
            /\ result' = IF ResizeFails(target) THEN Raised
                         ELSE ReturnImage(target)
       ELSE /\ resizes' = resizes
            /\ result' = ReturnNone
    /\ pc' = "done"
    /\ UNCHANGED <<cfg, entry, arg_fallback, decoded, img, fallback_resize,
                   scale, resized, idx, evaluated, yielded, contours,
                   card_contour, mapped, rectified, rectify_on, pts, ordered,
                   scene, ocr>>
    /\ UNCHANGED <<calls, parser, batch>>

\* the frame of a call is gone: every variable of the call is as at Init
ResetCall ==
    /\ pc' = "idle"
    /\ entry' = "none"
    /\ arg_fallback' = FALSE
    /\ decoded' = NoneImage
    /\ img' = NoneImage
    /\ fallback_resize' = FALSE
    /\ scale' = <<1, 1>>
    /\ resized' = <<0, 0>>
    /\ idx' = 1
    /\ evaluated' = <<>>
    /\ yielded' = <<>>
    /\ contours' = <<>>
    /\ card_contour' = NoContour
    /\ mapped' = NoContour
    /\ rectified' = <<>>
    /\ rectify_on' = NoneImage
    /\ resizes' = <<>>
    /\ result' = Pending
    /\ pts' = <<>>
    /\ ordered' = <<>>
    /\ scene' = "any"

\* _perspective_transform(img, contour) called on its own, lines 266-303,
\* on the smaller of a 480 x 640 and a 4000 x 5000 image that holds the
\* four points, which come in any order
PerspectiveTransformCall ==
    /\ pc = "idle"
    /\ ocr.pc = "idle"
    /\ \E q \in PointSets :
       \E p \in Orders(q) :
         /\ entry' = "_perspective_transform"
         /\ pts' = p
         /\ ordered' = OrderPoints(p)
         /\ rectified' = PerspectiveTransform(p)
         /\ rectify_on' = IF \A i \in 1..4 : p[i][1] < 640 /\ p[i][2] < 480
                          THEN Array(480, 640)
                          ELSE Array(4000, 5000)
    /\ pc' = "done"
    /\ UNCHANGED <<cfg, arg_fallback, decoded, img, fallback_resize, scale,
                   resized, idx, evaluated, yielded, contours, card_contour,
                   mapped, resizes, result, scene, ocr>>
    /\ UNCHANGED <<calls, parser, batch>>

\* a direct call is over; the detector is ready for the next one
Return ==
    /\ pc = "done"
    /\ ocr.pc = "idle"
    /\ ResetCall
    /\ UNCHANGED <<cfg, ocr>>
    /\ UNCHANGED <<calls, parser, batch>>

\* PaddleOCRBackend.extract(image_path), paddle_ocr.py lines 48-57, on a
\* backend built with or without auto_crop: the path check, then detect
ExtractCall ==
    /\ pc = "idle"
    /\ ocr.pc = "idle"
    /\ cfg = DefaultConfiguration
    /\ \E exists \in BOOLEAN, auto_crop \in BOOLEAN :
         IF ~exists
         THEN /\ ocr' = [ocr EXCEPT !.pc = "done", !.outcome = "FileNotFoundError"]
              /\ UNCHANGED callvars
         ELSE IF auto_crop
         THEN /\ ocr' = [ocr EXCEPT !.pc = "detecting", !.auto_crop = TRUE]
              /\ \E image \in DecodedImages :
                 \E sc \in Scenes(image) : DetectCall(image, TRUE, sc)
         ELSE /\ ocr' = [ocr EXCEPT !.pc = "predict", !.ocr_input = "path"]
              /\ UNCHANGED callvars
    /\ UNCHANGED cfg
    /\ UNCHANGED <<calls, parser, batch>>

\* paddle_ocr.py lines 57-65: detect is back; its image goes to a temporary
\* file made by tempfile.mkstemp and written by cv2.imwrite, each of which
\* can raise
ExtractCrop ==
    /\ ocr.pc = "detecting"
    /\ pc = "done"
    /\ IF result.kind = "Raise"
       THEN ocr' = [ocr EXCEPT !.pc = "done", !.outcome = "raised",
                               !.cropped = "Raise"]
       ELSE IF result.kind = "None"
       THEN ocr' = [ocr EXCEPT !.pc = "predict", !.ocr_input = "path",
                               !.cropped = "None"]
       ELSE \E fails \in {"nothing", "mkstemp", "imwrite"} :
              ocr' = IF fails = "mkstemp"
                     THEN [ocr EXCEPT !.pc = "done", !.outcome = "raised",
                                      !.cropped = "Image"]
                     ELSE IF fails = "imwrite"
                     THEN [ocr EXCEPT !.pc = "done", !.outcome = "raised",
                                      !.cropped = "Image", !.temp = "exists"]
                     ELSE [ocr EXCEPT !.pc = "predict", !.temp = "exists",
                                      !.cropped = "Image", !.ocr_input = "temp"]
    /\ ResetCall
    /\ UNCHANGED cfg
    /\ UNCHANGED <<calls, parser, batch>>

\* paddle_ocr.py lines 67-72: the engine runs on ocr_input and returns or
\* raises; the finally block unlinks the temporary file
ExtractPredict ==
    /\ ocr.pc = "predict"
    /\ \E ok \in BOOLEAN :
         ocr' = [ocr EXCEPT !.pc = "done",
                            !.predicts = @ + 1,
                            !.temp = IF @ = "exists" THEN "deleted" ELSE @,
                            !.outcome = IF ok THEN "returned" ELSE "raised"]
    /\ UNCHANGED <<cfg, callvars>>
    /\ UNCHANGED <<calls, parser, batch>>

\* extract is over; the backend is ready for the next call
ExtractReturn ==
    /\ ocr.pc = "done"
    /\ ocr' = OcrIdle
    /\ UNCHANGED <<cfg, callvars>>
    /\ UNCHANGED <<calls, parser, batch>>

Next ==
    \/ DetectFromArray
    \/ Detect
    \/ FindCardContourCall
    \/ OrderPointsCall
    \/ PerspectiveTransformCall
    \/ FindContours
    \/ StrategySucceeds
    \/ StrategyFails
    \/ Fallback
    \/ Return
    \/ ExtractCall
    \/ ExtractCrop
    \/ ExtractPredict
    \/ ExtractReturn

Spec == Init /\ [][Next]_vars

----------------------------------------------------------------------------
(* Two threads calling detect_from_array on one instance; a step of a     *)
(* thread holds at most one read of an attribute of self                  *)

\* images the threads pass: one analysed as it is, one on a downscaled copy
CallImages == { Array(480, 640), Array(3000, 4000) }

\* what the four strategies, in the order of the strategies list, find on
\* the image a thread passes: for each strategy the contours of its mask.
\* The contours are those of the catalogue for configuration c: a
\* triangle, a dart (four vertices, not convex), a rectangle just below
\* the minimum area, one on the minimum area, and two quadrilaterals of
\* the middle area, the card and the tilted card.
\*   - no strategy yields: an empty list, a triangle, a rectangle that is
\*     too small, a dart with a triangle;
\*   - the second strategy yields, its larger quadrilateral listed last;
\*   - the third strategy yields, from two quadrilaterals of equal area in
\*     either order
CallScenes(shape, c) ==
    LET H      == shape[1]
        W      == shape[2]
        cat    == Catalogue(H, W, c)
        lo     == Area2(c.min_area_ratio, H, W)
        mid    == Area2((c.min_area_ratio + c.max_area_ratio) \div 2, H, W)
        tri    == CHOOSE x \in cat : Len(x.approx) = 3
        dart   == CHOOSE x \in cat : Len(x.approx) = 4 /\ ~IsContourConvex(x.approx)
        tiny   == CHOOSE x \in cat : x.area2 = lo - 1
        small  == CHOOSE x \in cat : x.area2 = lo
        card   == CHOOSE x \in cat :
                     x = Contour(mid, Rect(W \div 8, H \div 6, (7 * W) \div 8, (5 * H) \div 6))
        tilted == CHOOSE x \in cat :
                     /\ x.area2 = mid /\ IsQuadrilateral(x.approx) /\ x # card
                     /\ \A i \in 1..4 : x.approx[i][2] > 0
    IN  { << <<>>, <<tri>>, <<tiny>>, <<dart, tri>> >>,
          << <<tri>>, <<small, card>>, <<>>, <<>> >>,
          << <<>>, <<tiny>>, <<card, tilted>>, <<>> >>,
          << <<>>, <<tiny>>, <<tilted, card>>, <<>> >> }

\* a configuration with the minimum area ratio overwritten
SelfRetuned(c) == [c EXCEPT !.min_area_ratio = 0]

\* the attributes of self after a step of a call: lines 46-50 of __init__
\* hold the only assignments to them
SelfAfter(c) == c

\* lines 126-137: the crop, clamped to MAX_OCR_DIM
Clamped(cropped) ==
    IF TooLarge(cropped) THEN ReturnImage(OcrTarget(cropped))
    ELSE ReturnImage(cropped)

\* thread t enters detect_from_array, lines 87-98
CallEnter(t) ==
    /\ calls[t].pc = "idle"
    /\ \E image \in CallImages, fb \in BOOLEAN :
       \E sc \in {AnalysisScale(image.h, image.w)} :
       \E shape \in {IF sc = <<1, 1>> THEN <<image.h, image.w>>
                      ELSE <<AnalysisTarget(image.h, image.w)[2],
                             AnalysisTarget(image.h, image.w)[1]>>} :
       \E found \in CallScenes(shape, cfg) :
         calls' = [calls EXCEPT ![t] =
                     [NoCall EXCEPT
                        !.pc = AfterGovernor(fb, image), !.built = cfg,
                        !.img = image, !.scene = found,
                        !.fallback_resize = fb, !.scale = sc,
                        !.resized = shape]]
    /\ cfg' = SelfAfter(cfg)
    /\ UNCHANGED <<callvars, ocr, parser, batch>>

\* lines 108-109 in thread t: the loop calls the next strategy, which
\* runs up to its first read of self; only _preprocess_canny reads self,
\* and line 154 reads self._canny_low first
CallPreprocess(t) ==
    /\ calls[t].pc = "strategies"
    /\ calls' = [calls EXCEPT
                   ![t].canny_low = IF Strategies[calls[t].idx] = "_preprocess_canny"
                                    THEN cfg.canny_low ELSE @,
                   ![t].pc = IF Strategies[calls[t].idx] = "_preprocess_canny"
                             THEN "canny_high" ELSE "mask"]
    /\ cfg' = SelfAfter(cfg)
    /\ UNCHANGED <<callvars, ocr, parser, batch>>

\* line 154 in thread t: the second argument read, self._canny_high
CallCannyHigh(t) ==
    /\ calls[t].pc = "canny_high"
    /\ calls' = [calls EXCEPT ![t].canny_high = cfg.canny_high,
                              ![t].pc = "mask"]
    /\ cfg' = SelfAfter(cfg)
    /\ UNCHANGED <<callvars, ocr, parser, batch>>

\* lines 110-115 in thread t: cv2.findContours lists the contours of the
\* mask; "if contours:" calls the selector for a list that is not empty
CallFindContours(t) ==
    /\ calls[t].pc = "mask"
    /\ \E cs \in {calls[t].scene[calls[t].idx]} :
         calls' = [calls EXCEPT ![t].contours = cs,
                                ![t].masks = Append(@, cs),
                                ![t].k = 1,
                                ![t].candidates = <<>>,
                                ![t].pc = IF cs = <<>> THEN "candidates"
                                          ELSE "min_area"]
    /\ cfg' = SelfAfter(cfg)
    /\ UNCHANGED <<callvars, ocr, parser, batch>>

\* lines 222-223 in thread t: min_area, from self._min_area_ratio
CallMinArea(t) ==
    /\ calls[t].pc = "min_area"
    /\ calls' = [calls EXCEPT ![t].min_area_ratio = cfg.min_area_ratio,
                              ![t].pc = "max_area"]
    /\ cfg' = SelfAfter(cfg)
    /\ UNCHANGED <<callvars, ocr, parser, batch>>

\* lines 224-226 in thread t: max_area, from self._max_area_ratio
CallMaxArea(t) ==
    /\ calls[t].pc = "max_area"
    /\ calls' = [calls EXCEPT ![t].max_area_ratio = cfg.max_area_ratio,
                              ![t].pc = "candidates"]
    /\ cfg' = SelfAfter(cfg)
    /\ UNCHANGED <<callvars, ocr, parser, batch>>

\* lines 228-244 in thread t, one contour of "for contour in contours":
\* the area filter against the bounds the thread computed, then, for a
\* contour it keeps, the read of self._epsilon_factor and the shape test
CallApprox(t) ==
    /\ calls[t].pc = "candidates"
    /\ calls[t].k <= Len(calls[t].contours)
    /\ \E c \in {calls[t].contours[calls[t].k]} :
         IF AreaDiscarded(c.area2, calls[t].resized[1] * calls[t].resized[2],
                          calls[t])
         THEN calls' = [calls EXCEPT ![t].k = @ + 1]
         ELSE calls' = [calls EXCEPT
                          ![t].k = @ + 1,
                          ![t].epsilon_factor = cfg.epsilon_factor,
                          ![t].candidates = IF IsQuadrilateral(c.approx)
                                            THEN Append(@, c) ELSE @]
    /\ cfg' = SelfAfter(cfg)
    /\ UNCHANGED <<callvars, ocr, parser, batch>>

\* lines 246-251 and 116-137 in thread t: the selector sorts its candidates
\* in place (line 250) and returns the first; the call maps it back,
\* rectifies, clamps and returns
CallStrategySucceeds(t) ==
    /\ calls[t].pc = "candidates"
    /\ calls[t].k > Len(calls[t].contours)
    /\ calls[t].candidates # <<>>
    /\ \E sorted \in {SortByAreaDesc(calls[t].candidates)} :
       \E quad \in {MapBack(sorted[1].approx, calls[t].scale)} :
       \E cropped \in {PerspectiveTransform(quad)} :
       \E image \in {Clamped(cropped)} :
         calls' = [calls EXCEPT ![t].candidates = sorted,
                                ![t].result = image,
                                ![t].pc = "done"]
    /\ cfg' = SelfAfter(cfg)
    /\ UNCHANGED <<callvars, ocr, parser, batch>>

\* lines 246-247 and 116 in thread t: the selector returns None (or was
\* not called), and the loop goes on to the next strategy or ends
CallStrategyFails(t) ==
    /\ calls[t].pc = "candidates"
    /\ calls[t].k > Len(calls[t].contours)
    /\ calls[t].candidates = <<>>
    /\ calls' = [calls EXCEPT
                   ![t].idx = IF LoopContinues(@) THEN @ + 1 ELSE @,
                   ![t].pc = IF LoopContinues(calls[t].idx)
                             THEN "strategies" ELSE "fallback"]
    /\ cfg' = SelfAfter(cfg)
    /\ UNCHANGED <<callvars, ocr, parser, batch>>

\* lines 139-148 in thread t
CallFallback(t) ==
    /\ calls[t].pc = "fallback"
    /\ calls' = [calls EXCEPT
                   ![t].result =
                       IF FallbackApplies(calls[t].fallback_resize, calls[t].img)
                       THEN ReturnImage(OcrTarget(<<calls[t].img.w, calls[t].img.h>>))
                       ELSE ReturnNone,
                   ![t].pc = "done"]
    /\ cfg' = SelfAfter(cfg)
    /\ UNCHANGED <<callvars, ocr, parser, batch>>

\* the call of thread t is over
CallReturn(t) ==
    /\ calls[t].pc = "done"
    /\ calls' = [calls EXCEPT ![t] = NoCall]
    /\ UNCHANGED <<cfg, callvars, ocr, parser, batch>>

NextConcurrent ==
    \/ \E t \in Threads : CallEnter(t)
    \/ \E t \in Threads : CallPreprocess(t)
    \/ \E t \in Threads : CallCannyHigh(t)
    \/ \E t \in Threads : CallFindContours(t)
    \/ \E t \in Threads : CallMinArea(t)
    \/ \E t \in Threads : CallMaxArea(t)
    \/ \E t \in Threads : CallApprox(t)
    \/ \E t \in Threads : CallStrategySucceeds(t)
    \/ \E t \in Threads : CallStrategyFails(t)
    \/ \E t \in Threads : CallFallback(t)
    \/ \E t \in Threads : CallReturn(t)

SpecConcurrent == Init /\ [][NextConcurrent]_vars

----------------------------------------------------------------------------
(* BusinessCardParser and BatchProcessor: parser.py and batch.py *)

\* longest OCR text, in characters, and longest list of paths of a batch
MaxTextLen == 2
MaxPaths == 3

\* characters of an OCR text: two kinds of whitespace and a letter
Whitespace == {" ", "\n"}
Chars == Whitespace \cup {"A"}

\* the texts an OCR backend can return
Texts == UNION { [1..n -> Chars] : n \in 0..MaxTextLen }

Paths == {"a.jpg", "b.png"}

\* the image_paths lists given to process
PathLists == UNION { [1..n -> Paths] : n \in 0..MaxPaths }

\* str.strip(): leading and trailing whitespace removed
RECURSIVE Strip(_)
Strip(text) ==
    IF text = <<>> THEN text
    ELSE IF Head(text) \in Whitespace THEN Strip(Tail(text))
    ELSE IF text[Len(text)] \in Whitespace
    THEN Strip(SubSeq(text, 1, Len(text) - 1))
    ELSE text

\* the test for an empty string only
NoTextIfEmpty(text) == text = <<>>

\* parser.py line 44: "not ocr_result.text.strip()"
NoText(text) == Strip(text) = <<>>

\* exceptions the backends raise (ocr/base.py lines 66-68, extractor/base.py
\* lines 28-29), and KeyboardInterrupt, which derives from BaseException
\* and not from Exception
OcrRaises == {"FileNotFoundError", "ValueError", "KeyboardInterrupt"}
ExtractorRaises == {"ValueError"}

\* the exception class derives from Exception
IsException(exc) == exc \in {"ValueError", "FileNotFoundError"}

\* an except clause for ValueError alone
CaughtIfValueError(exc) == exc = "ValueError"

\* batch.py line 72: "except Exception as e"
Caught(exc) == IsException(exc)

Returned(kind) == [kind |-> kind, exc |-> "none", msg |-> "none"]

Raise(exc, msg) == [kind |-> "raise", exc |-> exc, msg |-> msg]

\* batch.py lines 21-34: the counters of a BatchResult
Total(r) == Len(r.results) + Len(r.errors)
NumSucceeded(r) == Len(r.results)
Failed(r) == Len(r.errors)

\* the frame of a call of parse or parse_ocr_only on path p
ParserCalled(e, p) == [ParserIdle EXCEPT !.pc = "ocr", !.entry = e, !.path = p]

\* BusinessCardParser.parse(image_path) called directly
ParseCall ==
    /\ batch.pc = "idle"
    /\ parser.pc = "idle"
    /\ \E p \in Paths : parser' = ParserCalled("parse", p)
    /\ UNCHANGED <<cfg, callvars, ocr, calls, batch>>

\* BusinessCardParser.parse_ocr_only(image_path) called directly
ParseOcrOnlyCall ==
    /\ batch.pc = "idle"
    /\ parser.pc = "idle"
    /\ \E p \in Paths : parser' = ParserCalled("parse_ocr_only", p)
    /\ UNCHANGED <<cfg, callvars, ocr, calls, batch>>

\* parser.py lines 42-45 and 72-73: the OCR backend is called and raises or
\* returns a text; parse_ocr_only returns the text, parse raises ValueError
\* for a text that is blank and goes on to the extractor otherwise
ParserOcr ==
    /\ parser.pc = "ocr"
    /\ \/ \E exc \in OcrRaises :
            parser' = [parser EXCEPT !.pc = "done",
                                     !.log = Append(@, "ocr"),
                                     !.outcome = Raise(exc, "ocr failed")]
       \/ \E text \in Texts :
            parser' = IF parser.entry = "parse_ocr_only"
                      THEN [parser EXCEPT !.pc = "done",
                                          !.log = Append(@, "ocr"),
                                          !.text = text,
                                          !.outcome = Returned("text")]
                      ELSE IF NoText(text)
                      THEN [parser EXCEPT
                              !.pc = "done",
                              !.log = Append(@, "ocr"),
                              !.text = text,
                              !.outcome = Raise("ValueError",
                                  "OCR extracted no text from the image")]
                      ELSE [parser EXCEPT !.pc = "extract",
                                          !.log = Append(@, "ocr"),
                                          !.text = text]
    /\ UNCHANGED <<cfg, callvars, ocr, calls, batch>>

\* parser.py lines 48-58: the extractor is called with the OCR text and
\* raises or returns the card, which parse returns with its metadata
ParserExtract ==
    /\ parser.pc = "extract"
    /\ \/ \E exc \in ExtractorRaises :
            parser' = [parser EXCEPT !.pc = "done",
                                     !.log = Append(@, "extractor"),
                                     !.outcome = Raise(exc, "extraction failed")]
       \/ parser' = [parser EXCEPT !.pc = "done",
                                   !.log = Append(@, "extractor"),
                                   !.outcome = Returned("card")]
    /\ UNCHANGED <<cfg, callvars, ocr, calls, batch>>

\* the direct call of parse or parse_ocr_only is over
ParserReturn ==
    /\ batch.pc = "idle"
    /\ parser.pc = "done"
    /\ parser' = ParserIdle
    /\ UNCHANGED <<cfg, callvars, ocr, calls, batch>>

\* BatchProcessor.process(image_paths), batch.py lines 62-64
ProcessCall ==
    /\ batch.pc = "idle"
    /\ parser.pc = "idle"
    /\ \E paths \in PathLists :
         batch' = [BatchIdle EXCEPT !.pc = "loop", !.paths = paths]
    /\ UNCHANGED <<cfg, callvars, ocr, calls, parser>>

\* batch.py lines 66-68: the loop takes the next path and calls parse
ProcessIterate ==
    /\ batch.pc = "loop"
    /\ batch.i <= Len(batch.paths)
    /\ parser' = ParserCalled("parse", batch.paths[batch.i])
    /\ batch' = [batch EXCEPT !.pc = "parsing",
                              !.attempts = Append(@, batch.paths[batch.i])]
    /\ UNCHANGED <<cfg, callvars, ocr, calls>>

\* batch.py lines 68-76: parse is back; its card goes to results, an
\* exception the except clause catches goes to errors, any other exception
\* leaves process
ProcessCollect ==
    /\ batch.pc = "parsing"
    /\ parser.pc = "done"
    /\ parser' = ParserIdle
    /\ batch' =
         IF parser.outcome.kind = "card"
         THEN [batch EXCEPT !.pc = "loop", !.i = @ + 1,
                            !.results = Append(@, [image_path |-> parser.path]),
                            !.outcomes = Append(@, "results")]
         ELSE IF Caught(parser.outcome.exc)
         THEN [batch EXCEPT !.pc = "loop", !.i = @ + 1,
                            !.errors = Append(@, [image_path |-> parser.path,
                                                  error |-> parser.outcome.msg]),
                            !.outcomes = Append(@, "errors")]
         ELSE [batch EXCEPT !.pc = "raised", !.exc = parser.outcome.exc]
    /\ UNCHANGED <<cfg, callvars, ocr, calls>>

\* batch.py lines 78-84: the loop is exhausted and the BatchResult returned
ProcessReturn ==
    /\ batch.pc = "loop"
    /\ batch.i > Len(batch.paths)
    /\ batch' = [batch EXCEPT !.pc = "done"]
    /\ UNCHANGED <<cfg, callvars, ocr, calls, parser>>

\* the caller of process goes on
ProcessOver ==
    /\ batch.pc \in {"done", "raised"}
    /\ batch' = BatchIdle
    /\ UNCHANGED <<cfg, callvars, ocr, calls, parser>>

NextPipeline ==
    \/ ParseCall
    \/ ParseOcrOnlyCall
    \/ ParserOcr
    \/ ParserExtract
    \/ ParserReturn
    \/ ProcessCall
    \/ ProcessIterate
    \/ ProcessCollect
    \/ ProcessReturn
    \/ ProcessOver

SpecPipeline == Init /\ [][NextPipeline]_vars

TypeOK ==
    /\ cfg \in Configurations
    /\ pc \in {"idle", "strategies", "selecting", "fallback", "done"}
    /\ ocr.pc \in {"idle", "detecting", "predict", "done"}
    /\ ocr.temp \in {"none", "exists", "deleted"}
    /\ parser.pc \in {"idle", "ocr", "extract", "done"}
    /\ batch.pc \in {"idle", "loop", "parsing", "done", "raised"}
    /\ ocr.auto_crop \in BOOLEAN
    /\ ocr.cropped \in {"unset", "None", "Image", "Raise"}
    /\ scene \in {"any", "rectangle"}
    /\ idx \in 1..Len(Strategies)
    /\ Len(evaluated) = Len(yielded)

----------------------------------------------------------------------------
(* Properties *)

\* a detection call (detect or detect_from_array) is under way or over
Detecting == entry \in {"detect", "detect_from_array"}

\* the last evaluated strategy yielded an accepted quadrilateral
Succeeded == yielded # <<>> /\ yielded[Len(yielded)]

\* detect_from_array got past its input check
Accepted == Detecting /\ img.kind = "array" /\ img.h * img.w > 0

\* C1: the strategies are evaluated in the order bright-region, adaptive
\* threshold, plain edge detection, morphological gradient; a strategy is
\* evaluated only if all earlier ones yielded no quadrilateral; once one
\* yields, the call is over, nothing further is evaluated, and the result
\* is built from that strategy's quadrilateral alone.
C1_FixedOrderFirstWins ==
    /\ [](/\ evaluated = SubSeq(<<"_preprocess_white_region", "_preprocess_adaptive",
                                  "_preprocess_canny", "_preprocess_morph">>,
                                1, Len(evaluated))
          /\ Len(yielded) = Len(evaluated)
          /\ \A i \in 1..(Len(yielded) - 1) : ~yielded[i]
          /\ Succeeded =>
               /\ pc = "done"
               /\ card_contour # NoContour
               /\ card_contour = Select(contours, resized, cfg)
               /\ mapped = MapBack(card_contour, scale)
               /\ rectified = PerspectiveTransform(mapped)
               /\ result.kind = "Image"
               /\ result = ReturnImage(IF TooLarge(rectified)
                                       THEN OcrTarget(rectified) ELSE rectified))
    /\ [][Succeeded => (pc' = "idle" /\ evaluated' = <<>>)]_vars

C1_Witness ==
    /\ pc = "done"
    /\ evaluated = <<"_preprocess_white_region", "_preprocess_adaptive",
                     "_preprocess_canny">>
    /\ yielded = <<FALSE, FALSE, TRUE>>
    /\ result.kind = "Image"

\* C2 (P7): after a successful detection the returned image is at least
\* 100 wide and 60 high, also when it was downscaled to fit MAX_OCR_DIM.
C2_MinimumOutputSize ==
    (pc = "done" /\ Detecting /\ Succeeded /\ result.kind = "Image")
        => (result.w >= 100 /\ result.h >= 60)

\* C3: every image detect_from_array returns, from a detection or from the
\* fallback, has max(width, height) <= MAX_OCR_DIM.
C3_OutputWithinOcrDim ==
    (Detecting /\ result.kind = "Image") => Max(result.w, result.h) <= 2000

C3_Witness ==
    /\ pc = "done"
    /\ Succeeded
    /\ rectified[2] > 2000
    /\ result.kind = "Image"
    /\ result.h <= 2000

\* C4: when the four strategies yield no quadrilateral and fallback_resize
\* is true, the call returns an image, whatever the size of the input.
C4_FallbackAlwaysReturnsImage ==
    (pc = "done" /\ Accepted /\ fallback_resize /\ Len(evaluated) = 4 /\ ~Succeeded)
        => result.kind = "Image"

\* C5 (P4): when no strategy yields a quadrilateral and fallback_resize is
\* false, the call returns None, for a non-empty image of any size.
C5_NoDetectionReturnsNone ==
    (pc = "done" /\ Accepted /\ ~fallback_resize /\ ~Succeeded)
        => result = ReturnNone

\* C6: detect_from_array given None or an empty array returns None at once:
\* no strategy evaluated, no resize requested, nothing raised, for both
\* values of fallback_resize.
C6_EmptyInputReturnsNone ==
    (entry = "detect_from_array" /\ (img.kind = "None" \/ img.h * img.w = 0))
        => /\ pc = "done"
           /\ result = ReturnNone
           /\ evaluated = <<>>
           /\ resizes = <<>>
           /\ rectified = <<>>

C6_Witness ==
    /\ entry = "detect_from_array"
    /\ img.kind = "array"
    /\ img.h * img.w = 0
    /\ fallback_resize
    /\ result = ReturnNone

\* C7: detect returns None without any detection step when the file cannot
\* be decoded; otherwise it runs detect_from_array on the decoded image with
\* the fallback_resize value it was given.
C7_DetectDelegates ==
    entry = "detect" =>
        IF decoded.kind = "None"
        THEN /\ pc = "done"
             /\ result = ReturnNone
             /\ evaluated = <<>>
             /\ resizes = <<>>
        ELSE /\ img = decoded
             /\ fallback_resize = arg_fallback

C7_Witness ==
    /\ entry = "detect"
    /\ pc = "done"
    /\ arg_fallback
    /\ decoded.kind = "array"
    /\ Len(evaluated) = 4
    /\ ~Succeeded
    /\ result.kind = "Image"

\* area of the analysis image the selector worked on
ImgArea == resized[1] * resized[2]

\* the contour's area lies within [min_area_ratio, max_area_ratio] x image area
WithinAreaBounds(k) ==
    /\ k.area2 * 100 >= 2 * ImgArea * cfg.min_area_ratio
    /\ k.area2 * 100 <= 2 * ImgArea * cfg.max_area_ratio

\* the contour's area equals one of the two bounds exactly
OnAreaBound(k) ==
    \/ k.area2 * 100 = 2 * ImgArea * cfg.min_area_ratio
    \/ k.area2 * 100 = 2 * ImgArea * cfg.max_area_ratio

\* the selector has answered for the list in contours (during a detection
\* the list is there one step before the selector is called on it)
SelectorAnswered == pc # "selecting"

\* the contour's polygon has 4 vertices and turns one way throughout
ConvexQuad(poly) ==
    /\ Len(poly) = 4
    /\ \/ \A i \in 1..4 : Cross(poly[i], poly[(i % 4) + 1], poly[((i + 1) % 4) + 1]) > 0
       \/ \A i \in 1..4 : Cross(poly[i], poly[(i % 4) + 1], poly[((i + 1) % 4) + 1]) < 0

\* C8 (P2): the selector never returns the polygon of a contour whose area
\* is below min_area_ratio x image area or above max_area_ratio x image
\* area; the bounds are inclusive: a convex 4-vertex contour whose area
\* equals a bound exactly is kept, so the selector returns a polygon.
C8_AreaBoundsInclusive ==
    /\ \A i \in 1..Len(contours) :
         contours[i].approx = card_contour => WithinAreaBounds(contours[i])
    /\ (/\ SelectorAnswered
        /\ \E i \in 1..Len(contours) :
             OnAreaBound(contours[i]) /\ ConvexQuad(contours[i].approx))
         => card_contour # NoContour

C8_Witness ==
    /\ entry = "_find_card_contour"
    /\ Len(contours) = 2
    /\ ~WithinAreaBounds(contours[1])
    /\ ConvexQuad(contours[1].approx)
    /\ OnAreaBound(contours[2])
    /\ card_contour = contours[2].approx

\* C9 (P3): every polygon the selector returns has exactly 4 vertices and
\* is convex; a contour approximated to 3 vertices, to 5 or more, or to a
\* non-convex 4-gon is never returned, even alone and within the area bounds.
C9_OnlyConvexQuadrilaterals ==
    /\ card_contour # NoContour => ConvexQuad(card_contour)
    /\ \A i \in 1..Len(contours) :
         ~ConvexQuad(contours[i].approx) => card_contour # contours[i].approx

C9_Witness ==
    /\ entry = "_find_card_contour"
    /\ Len(contours) = 1
    /\ WithinAreaBounds(contours[1])
    /\ Len(contours[1].approx) = 4
    /\ ~ConvexQuad(contours[1].approx)
    /\ card_contour = NoContour

\* contour i is kept: within the area bounds, 4 vertices, convex
Kept(i) == WithinAreaBounds(contours[i]) /\ ConvexQuad(contours[i].approx)

\* C10: the selector returns the kept candidate of largest area, the first
\* of the input list among those of maximal area; it returns None exactly
\* when no candidate is kept.
C10_LargestFirstOnTies ==
    SelectorAnswered =>
    IF \E i \in 1..Len(contours) : Kept(i)
    THEN \E i \in 1..Len(contours) :
           /\ Kept(i)
           /\ \A j \in 1..Len(contours) :
                Kept(j) => contours[j].area2 <= contours[i].area2
           /\ \A j \in 1..(i - 1) :
                Kept(j) => contours[j].area2 < contours[i].area2
           /\ card_contour = contours[i].approx
    ELSE card_contour = NoContour

C10_Witness ==
    /\ entry = "_find_card_contour"
    /\ Len(contours) = 2
    /\ Kept(1)
    /\ Kept(2)
    /\ contours[1].area2 = contours[2].area2
    /\ contours[1].approx # contours[2].approx
    /\ card_contour = contours[1].approx

----------------------------------------------------------------------------
(* Properties of _order_points *)

\* a direct _order_points call is over
Ordered == entry = "_order_points" /\ pc = "done"

\* _order_points has run, called directly or by _perspective_transform
OrderPointsRan == pts # <<>>

\* the rectangle of tests/test_preprocessing.py 79, as TL, TR, BR, BL
P6Rect == << <<100, 100>>, <<300, 100>>, <<300, 200>>, <<100, 200>> >>

\* C11: given the four points (100,100), (300,100), (300,200), (100,200) in
\* any of their 24 orders, _order_points returns exactly
\* [(100,100), (300,100), (300,200), (100,200)].
C11_RectangleAnyOrder ==
    (Ordered /\ pts \in Orders(P6Rect)) => ordered = P6Rect

\* the rectangle came in reversed and rotated, and went out as TL, TR, BR, BL
C11_Witness ==
    /\ Ordered
    /\ pts = << <<300, 200>>, <<100, 200>>, <<300, 100>>, <<100, 100>> >>
    /\ ordered = P6Rect

\* C12: for any four points, ties of x+y or of y-x included, every one of
\* the 24 orders of the points gives the same output of _order_points.
C12_SameForEveryOrder ==
    Ordered => \A p \in Orders(pts) : OrderPoints(p) = ordered

\* C13: _order_points applied to its own output returns that output.
C13_Idempotent ==
    OrderPointsRan => OrderPoints(ordered) = ordered

\* point q has the least (sign = 1) or the greatest (sign = -1) value of
\* a * x + b * y among the points given to _order_points
Extreme(q, a, b, sign) ==
    /\ \E i \in 1..Len(pts) : pts[i] = q
    /\ \A j \in 1..Len(pts) :
         sign * (a * q[1] + b * q[2]) <= sign * (a * pts[j][1] + b * pts[j][2])

\* C14 as stated: index 0 has the minimum x+y, index 2 the maximum x+y,
\* index 1 the minimum x-y, index 3 the maximum x-y.
C14_MinDifferenceTopRight ==
    OrderPointsRan =>
        /\ Extreme(ordered[1], 1, 1, 1)
        /\ Extreme(ordered[3], 1, 1, -1)
        /\ Extreme(ordered[2], 1, -1, 1)
        /\ Extreme(ordered[4], 1, -1, -1)

\* C14, amended: index 0 has the minimum x+y, index 2 the maximum x+y,
\* index 1 the minimum y-x (the maximum x-y), index 3 the maximum y-x
\* (the minimum x-y).
C14_Classification ==
    OrderPointsRan =>
        /\ Extreme(ordered[1], 1, 1, 1)
        /\ Extreme(ordered[3], 1, 1, -1)
        /\ Extreme(ordered[2], -1, 1, 1)
        /\ Extreme(ordered[4], -1, 1, -1)

\* a turned rectangle was ordered: its top-right corner has the largest x-y
C14_Witness ==
    /\ Ordered
    /\ pts = << <<100, 200>>, <<300, 230>>, <<320, 130>>, <<120, 100>> >>
    /\ ordered[2] = <<320, 130>>
    /\ ordered[4] = <<100, 200>>

----------------------------------------------------------------------------
(* Properties of the size governor *)

\* the strategies run, or have run, on the analysis image
StrategiesRun ==
    Accepted /\ (pc \in {"strategies", "selecting"} \/ evaluated # <<>>)

\* r is floor(x * K / m), or one less (the product of x and the rounded
\* quotient K / m can land just below an integer)
FloorOrBelow(r, x, K, m) == (x * K) \div m - 1 <= r /\ r <= (x * K) \div m

\* C15: if max(width, height) > 1500 the strategies run on a copy of size
\* (floor(width * scale), floor(height * scale)), scale = 1500 / max(width,
\* height), whose larger side is at most 1500; otherwise they run on the
\* input itself and the recorded scale is exactly 1.
C15_AnalysisSize ==
    StrategiesRun =>
        LET m == Max(img.w, img.h)
        IN  IF m > MAX_PROCESS_DIM
            THEN /\ scale = <<MAX_PROCESS_DIM, m>>
                 /\ resized = <<ScaleDim(img.h, MAX_PROCESS_DIM, m),
                                ScaleDim(img.w, MAX_PROCESS_DIM, m)>>
                 /\ FloorOrBelow(resized[1], img.h, MAX_PROCESS_DIM, m)
                 /\ FloorOrBelow(resized[2], img.w, MAX_PROCESS_DIM, m)
                 /\ resizes # <<>>
                 /\ resizes[1] = <<resized[2], resized[1]>>
                 /\ Max(resized[1], resized[2]) <= MAX_PROCESS_DIM
            ELSE /\ scale = <<1, 1>>
                 /\ resized = <<img.h, img.w>>
                 /\ (pc = "strategies" => resizes = <<>>)

\* a 1200 x 2147 image is analysed on a 838 x 1499 copy
C15_Witness ==
    /\ StrategiesRun
    /\ img = Array(2147, 1200)
    /\ scale = <<MAX_PROCESS_DIM, 2147>>
    /\ resized = <<1499, 838>>

\* v is c divided by the scale K / m and truncated, give or take the
\* rounding of the float32 division
TruncatedQuotient(v, c, K, m) ==
    (c * m) \div K - 1 <= v /\ v <= (c * m) \div K + 1

\* C16: the rectifier is applied to the original-resolution input, never to
\* the analysis copy, on the found quadrilateral divided by scale and
\* truncated to integers when a downscale occurred, and on the found
\* quadrilateral unchanged when scale is 1.
C16_RectifiesOriginal ==
    (Accepted /\ Succeeded) =>
        /\ rectify_on = img
        /\ pts = mapped
        /\ Len(mapped) = Len(card_contour)
        /\ IF scale = <<1, 1>>
           THEN mapped = card_contour
           ELSE /\ <<rectify_on.h, rectify_on.w>> # resized
                /\ \A i \in 1..Len(mapped) : \A k \in 1..2 :
                     /\ mapped[i][k] =
                            ScaleBack(card_contour[i][k], scale[1], scale[2])
                     /\ TruncatedQuotient(mapped[i][k], card_contour[i][k],
                                          scale[1], scale[2])

\* a quadrilateral found on the 1125 x 1500 copy of a 3000 x 4000 image
\* was rectified on the 3000 x 4000 image, its corners scaled up
C16_Witness ==
    /\ Accepted
    /\ Succeeded
    /\ img = Array(3000, 4000)
    /\ resized = <<1125, 1500>>
    /\ rectify_on = Array(3000, 4000)
    /\ mapped # card_contour
    /\ mapped[1][1] > card_contour[1][1]

----------------------------------------------------------------------------
(* Properties of the call as a whole *)

\* C17: a call of detect_from_array on a non-empty image evaluates at most
\* four strategies, each at most once, and ends in Done(Image) or
\* Done(None); Done(None) only when no strategy yielded a quadrilateral and
\* the fallback is disabled or not needed (max side <= MAX_OCR_DIM).
C17_TerminalOutcomes ==
    Accepted =>
        /\ Len(evaluated) <= 4
        /\ \A i \in 1..Len(evaluated) : evaluated[i] = Strategies[i]
        /\ \A i, j \in 1..Len(evaluated) :
             evaluated[i] = evaluated[j] => i = j
        /\ pc = "done" => result.kind \in {"Image", "None"}
        /\ (pc = "done" /\ result.kind = "None") =>
             /\ \A i \in 1..Len(yielded) : ~yielded[i]
             /\ ~fallback_resize \/ Max(img.h, img.w) <= MAX_OCR_DIM

----------------------------------------------------------------------------
(* Properties of PaddleOCRBackend.extract *)

\* C19: whenever extract has created a temporary file, the file has been
\* deleted by the time extract returns or raises, on every exit path, an
\* exception while the image is written into the file included.
C19_TempFileDeleted ==
    ocr.pc = "done" => ocr.temp # "exists"

----------------------------------------------------------------------------
(* The rectangle of the test suite *)


\* C20: for the 800 x 600 image that is dark but for a light rectangle over
\* x in [100,700), y in [100,400), detection with default settings returns
\* an image of width in (200, 700) and height in (100, 400).
C20_RectangleDetected ==
    (Detecting /\ scene = "rectangle" /\ cfg = DefaultConfiguration
               /\ pc = "done") =>
        /\ result.kind = "Image"
        /\ 200 < result.w /\ result.w < 700
        /\ 100 < result.h /\ result.h < 400

\* detect_from_array returned the 611 x 311 crop of the rectangle scene,
\* found by the first strategy
C20_Witness ==
    /\ entry = "detect_from_array"
    /\ scene = "rectangle"
    /\ cfg = DefaultConfiguration
    /\ img = Array(600, 800)
    /\ pc = "done"
    /\ evaluated = <<"_preprocess_white_region">>
    /\ result = ReturnImage(<<611, 311>>)

----------------------------------------------------------------------------
(* Properties of concurrent calls *)

\* index of the first of the masks, from i on, whose selector answer under
\* configuration c is a quadrilateral; 0 if there is none
RECURSIVE FirstYield(_, _, _, _)
FirstYield(masks, shape, c, i) ==
    IF i > Len(masks) THEN 0
    ELSE IF Select(masks[i], shape, c) # NoContour THEN i
    ELSE FirstYield(masks, shape, c, i + 1)

\* what the call of frame f returns when it runs alone on an instance
\* built with f.built: every strategy of f.scene is answered under f.built
RunAlone(f) ==
    LET i == FirstYield(f.scene, f.resized, f.built, 1)
    IN  IF i > 0
        THEN CHOOSE image \in
                 { Clamped(cropped) : cropped \in
                     { PerspectiveTransform(quad) : quad \in
                         { MapBack(card, f.scale) : card \in
                             { Select(f.scene[i], f.resized, f.built) } } } } : TRUE
        ELSE IF FallbackApplies(f.fallback_resize, f.img)
        THEN ReturnImage(OcrTarget(<<f.img.w, f.img.h>>))
        ELSE ReturnNone

\* the strategies the call of frame f evaluates when it runs alone
StrategiesAlone(f) ==
    LET i == FirstYield(f.scene, f.resized, f.built, 1)
    IN  IF i > 0 THEN i ELSE Len(Strategies)

\* every attribute a call has read so far had the value the instance was
\* built with
ReadsAsBuilt(f) ==
    /\ f.canny_low \in {-1, f.built.canny_low}
    /\ f.canny_high \in {-1, f.built.canny_high}
    /\ f.min_area_ratio \in {-1, f.built.min_area_ratio}
    /\ f.max_area_ratio \in {-1, f.built.max_area_ratio}
    /\ f.epsilon_factor \in {-1, f.built.epsilon_factor}

\* C18: the configuration is never written after construction by detect,
\* detect_from_array or a helper: whatever the other thread does between
\* two reads of a call, each read finds the value the instance was built
\* with.  So in any interleaving of two concurrent calls on one instance
\* each call evaluates the strategies and returns the result of the same
\* call run alone.
C18_ConcurrentCallsIndependent ==
    \A t \in Threads :
        calls[t].pc # "idle" =>
            /\ ReadsAsBuilt(calls[t])
            /\ calls[t].pc = "done" =>
                   /\ Len(calls[t].masks) = StrategiesAlone(calls[t])
                   /\ calls[t].result = RunAlone(calls[t])

\* thread a has returned the image of its second strategy, found among two
\* contours, while thread b, on another image where nothing is found, is
\* inside the selector call of its third strategy, between its reads of
\* the two area ratios
C18_Witness ==
    /\ calls["a"].pc = "done"
    /\ calls["a"].result.kind = "Image"
    /\ Len(calls["a"].masks) = 2
    /\ Len(calls["a"].contours) = 2
    /\ calls["b"].pc = "max_area"
    /\ calls["b"].idx = 3
    /\ calls["b"].canny_high = cfg.canny_high
    /\ calls["b"].scene[4] # <<>>
    /\ calls["b"].img # calls["a"].img

----------------------------------------------------------------------------
(* Properties of _perspective_transform *)

\* _perspective_transform has run, called directly or by detect_from_array
Rectified == rectified # <<>>

\* the floor of the exact square root of n, searched in lo..hi
RECURSIVE FloorSqrt(_, _, _)
FloorSqrt(n, lo, hi) ==
    IF lo >= hi THEN lo
    ELSE LET mid == (lo + hi + 1) \div 2
         IN  IF mid * mid <= n THEN FloorSqrt(n, mid, hi)
             ELSE FloorSqrt(n, lo, mid - 1)

\* the squared Euclidean distance of two points, exact
Dist2(p, q) == (p[1] - q[1]) * (p[1] - q[1]) + (p[2] - q[2]) * (p[2] - q[2])

\* floor of the longer of the edges a-b and c-d
LongerEdge(a, b, c, d) == FloorSqrt(Max(Dist2(a, b), Dist2(c, d)), 0, 46340)

\* C23: for the ordered corners TL, TR, BR, BL the output width is
\* max(floor(max(|TL-TR|, |BR-BL|)), 100) and the output height is
\* max(floor(max(|TL-BL|, |TR-BR|)), 60); the warped image has exactly this
\* size, so it is at least 100 wide and 60 high for any 4-point contour.
C23_OutputSizing ==
    Rectified =>
        /\ Len(ordered) = 4
        /\ rectified[1] =
             Max(LongerEdge(ordered[1], ordered[2], ordered[3], ordered[4]), 100)
        /\ rectified[2] =
             Max(LongerEdge(ordered[1], ordered[4], ordered[2], ordered[3]), 60)
        /\ rectified[1] >= 100
        /\ rectified[2] >= 60

\* a strip 32 pixels high was rectified to 597 x 60
C23_Witness ==
    /\ Accepted
    /\ Succeeded
    /\ img = Array(480, 640)
    /\ LongerEdge(ordered[1], ordered[4], ordered[2], ordered[3]) = 32
    /\ rectified = <<597, 60>>

\* C24: the ordered corners _perspective_transform passes to
\* cv2.getPerspectiveTransform are pairwise distinct and are the four
\* vertices of the accepted convex quadrilateral, each in one corner role.
C24_DistinctCorners ==
    (Accepted /\ Succeeded) =>
        /\ \A i, j \in 1..4 : ordered[i] = ordered[j] => i = j
        /\ {ordered[i] : i \in 1..4} = {mapped[i] : i \in 1..4}

----------------------------------------------------------------------------
(* Properties of the selector's answer *)

\* twice the area enclosed by a polygon (shoelace formula)
RECURSIVE ShoelaceSum(_, _)
ShoelaceSum(poly, i) ==
    IF i > Len(poly) THEN 0
    ELSE LET p == poly[i]
             q == poly[(i % Len(poly)) + 1]
         IN  p[1] * q[2] - q[1] * p[2] + ShoelaceSum(poly, i + 1)

PolygonArea2(poly) ==
    LET a == ShoelaceSum(poly, 1) IN IF a < 0 THEN -a ELSE a

\* twice the area a2 is within [min_area_ratio, max_area_ratio] x image area
AreaWithinBounds(a2) ==
    /\ 100 * a2 >= 2 * cfg.min_area_ratio * ImgArea
    /\ 100 * a2 <= 2 * cfg.max_area_ratio * ImgArea

\* the selector has returned a polygon
Selected ==
    /\ entry \in {"_find_card_contour", "detect", "detect_from_array"}
    /\ contours # <<>>
    /\ card_contour # NoContour

\* C25 as stated: the polygon returned by _find_card_contour has itself an
\* enclosed area within the bounds and is the largest kept polygon.
C25_PolygonAreaWithinBounds ==
    Selected =>
        /\ AreaWithinBounds(PolygonArea2(card_contour))
        /\ \A j \in 1..Len(contours) :
             Kept(j) => PolygonArea2(contours[j].approx)
                            <= PolygonArea2(card_contour)

\* C25, amended: the polygon returned by _find_card_contour is the
\* approximation of a kept contour whose own area, as cv2.contourArea gives
\* it, is within the bounds and is the largest among the kept contours.
C25_ContourAreaWithinBounds ==
    Selected =>
        \E i \in 1..Len(contours) :
            /\ Kept(i)
            /\ contours[i].approx = card_contour
            /\ AreaWithinBounds(contours[i].area2)
            /\ \A j \in 1..Len(contours) :
                 Kept(j) => contours[j].area2 <= contours[i].area2

\* a direct call chose between two kept contours and returned the polygon
\* of the one with the larger contour area, though its polygon is smaller
C25_Witness ==
    /\ entry = "_find_card_contour"
    /\ Len(contours) = 2
    /\ Kept(1)
    /\ Kept(2)
    /\ contours[2].area2 > contours[1].area2
    /\ card_contour = contours[2].approx
    /\ PolygonArea2(contours[2].approx) < PolygonArea2(contours[1].approx)

----------------------------------------------------------------------------
(* Properties of the control flow of detect_from_array *)

\* all four strategies were evaluated and none yielded a quadrilateral
AllFailed ==
    /\ evaluated = Strategies
    /\ \A i \in 1..Len(yielded) : ~yielded[i]

\* C26: the rectifier is invoked at most once per call and only after the
\* selector returned a quadrilateral for the current strategy; the fallback
\* check is reached only after all four strategies were evaluated and none
\* returned a quadrilateral, so a fallback-resized copy is never returned
\* in a call in which a strategy yielded.
C26_RectifyOnceFallbackLast ==
    /\ [](Detecting =>
            /\ Rectified => (Succeeded /\ card_contour # NoContour /\ pc = "done")
            /\ pc = "fallback" => AllFailed
            /\ (pc = "done" /\ result.kind = "Image" /\ ~Rectified) =>
                  (AllFailed /\ fallback_resize))
    /\ [][(Detecting /\ Rectified) => (pc' = "idle" /\ rectified' = <<>>)]_vars
    /\ [][(Detecting' /\ ~Rectified /\ Rectified') =>
            (pc = "selecting" /\ yielded' = Append(yielded, TRUE))]_vars

\* the fourth strategy failed too and the call returned the fallback copy
C26_Witness ==
    /\ Detecting
    /\ pc = "done"
    /\ AllFailed
    /\ ~Rectified
    /\ fallback_resize
    /\ result = ReturnImage(<<2000, 1500>>)

----------------------------------------------------------------------------
(* Properties of the resize targets *)

\* C28: every resize target (analysis downscale, output clamp, fallback
\* resize) has width >= 1 and height >= 1 for every non-empty input image,
\* extreme aspect ratios included.
C28_ResizeTargetsPositive ==
    Detecting =>
        \A i \in 1..Len(resizes) : resizes[i][1] >= 1 /\ resizes[i][2] >= 1

----------------------------------------------------------------------------
(* Properties of the mapping back to the original resolution *)

\* every vertex of the polygon lies on a pixel of an image h high, w wide
InsideImage(poly, h, w) ==
    \A i \in 1..Len(poly) :
        /\ 0 <= poly[i][1] /\ poly[i][1] <= w - 1
        /\ 0 <= poly[i][2] /\ poly[i][2] <= h - 1

\* C29: a quadrilateral found on the downscaled image, its vertices in
\* [0, new_w - 1] x [0, new_h - 1], mapped back by dividing by the scale and
\* truncating, lies inside the original image: 0 <= x <= orig_w - 1 and
\* 0 <= y <= orig_h - 1 for every vertex.
C29_MappedInsideOriginal ==
    (Accepted /\ Succeeded /\ scale # <<1, 1>>
       /\ InsideImage(card_contour, resized[1], resized[2])) =>
        /\ Len(mapped) = 4
        /\ InsideImage(mapped, img.h, img.w)

\* a quadrilateral touching the right and the bottom border of the 1500 x
\* 999 copy of a 1501 x 1000 image, mapped back
C29_Witness ==
    /\ Accepted
    /\ Succeeded
    /\ img = Array(1501, 1000)
    /\ scale # <<1, 1>>
    /\ \E i \in 1..Len(card_contour) : card_contour[i][1] = resized[2] - 1
    /\ \E i \in 1..Len(card_contour) : card_contour[i][2] = resized[1] - 1
    /\ InsideImage(mapped, 1501, 1000)

----------------------------------------------------------------------------
(* Properties of the engine invocation of PaddleOCRBackend.extract *)

\* C27: the recognition engine is invoked exactly once per call of extract:
\* on a temporary file exactly when the detector returned a non-null image,
\* on the original path when the detector returned None or auto_crop is
\* disabled, and in these two cases no temporary file is created; a missing
\* input path raises FileNotFoundError before any detection or file
\* creation.
C27_EngineOncePerCall ==
    ocr.pc = "done" =>
        IF ocr.outcome = "FileNotFoundError"
        THEN /\ ocr.predicts = 0
             /\ ocr.cropped = "unset"
             /\ ocr.temp = "none"
        ELSE /\ ocr.predicts = 1
             /\ ocr.ocr_input = "temp" <=> ocr.cropped = "Image"
             /\ (~ocr.auto_crop \/ ocr.cropped = "None") =>
                    (ocr.ocr_input = "path" /\ ocr.temp = "none")

----------------------------------------------------------------------------
(* Properties of the fallback_resize argument *)

\* sequence s is the beginning of sequence u
IsPrefix(s, u) == Len(s) <= Len(u) /\ s = SubSeq(u, 1, Len(s))

\* two finished calls on the same instance configuration and the same
\* image (its size and what the strategies find on it), one with
\* fallback_resize and one without
SameCallButFlag(f, g) ==
    /\ f.pc = "done" /\ g.pc = "done"
    /\ f.built = g.built
    /\ f.img = g.img
    /\ f.scene = g.scene
    /\ f.fallback_resize /\ ~g.fallback_resize

\* C30: fallback_resize influences only the path on which all strategies
\* failed: for the same configuration and image, whenever some strategy
\* yields, the call with fallback_resize = True and the call with
\* fallback_resize = False evaluate the same strategies and return the same
\* image.
C30_FlagOnlyAfterAllFailed ==
    \A s, t \in Threads :
        (/\ SameCallButFlag(calls[s], calls[t])
         /\ FirstYield(calls[s].scene, calls[s].resized, calls[s].built, 1) > 0) =>
            /\ calls[s].masks = calls[t].masks
            /\ calls[s].result = calls[t].result
            /\ calls[s].result.kind = "Image"

\* both calls on the 3000 x 4000 image, which the fallback would resize,
\* got their quadrilateral from the second strategy
C30_Witness ==
    /\ SameCallButFlag(calls["a"], calls["b"])
    /\ calls["a"].img = Array(3000, 4000)
    /\ FallbackApplies(calls["a"].fallback_resize, calls["a"].img)
    /\ Len(calls["a"].masks) = 2
    /\ calls["a"].masks = calls["b"].masks
    /\ calls["a"].result.kind = "Image"
    /\ calls["a"].result = calls["b"].result

----------------------------------------------------------------------------
(* Properties of BusinessCardParser *)

\* the text is empty or consists of whitespace only
Blank(text) == \A k \in 1..Len(text) : text[k] \in Whitespace

\* the OCR backend of the current call returned a text
OcrReturned == parser.log # <<>> /\ parser.outcome.msg # "ocr failed"

\* C22: parse calls the OCR backend first; when the OCR text is empty or
\* whitespace only it raises ValueError without ever calling the extractor;
\* the extractor is called exactly once, after the OCR, only when the text
\* is not blank; parse_ocr_only never calls the extractor.
C22_OcrThenExtractor ==
    /\ parser.log \in {<<>>, <<"ocr">>, <<"ocr", "extractor">>}
    /\ parser.pc \in {"extract", "done"} => parser.log # <<>>
    /\ parser.entry = "parse_ocr_only" => parser.log # <<"ocr", "extractor">>
    /\ parser.log = <<"ocr", "extractor">> =>
          (parser.entry = "parse" /\ OcrReturned /\ ~Blank(parser.text))
    /\ (parser.entry = "parse" /\ parser.pc = "done" /\ OcrReturned) =>
          IF Blank(parser.text)
          THEN /\ parser.log = <<"ocr">>
               /\ parser.outcome.kind = "raise"
               /\ parser.outcome.exc = "ValueError"
          ELSE parser.log = <<"ocr", "extractor">>

\* parse got a space and a newline from the OCR backend and raised
\* ValueError with the extractor never called
C22_Witness ==
    /\ parser.entry = "parse"
    /\ parser.pc = "done"
    /\ parser.text = <<" ", "\n">>
    /\ parser.log = <<"ocr">>
    /\ parser.outcome = Raise("ValueError", "OCR extracted no text from the image")

----------------------------------------------------------------------------
(* Properties of BatchProcessor.process *)

\* the paths, in order, whose iteration appended to the list of that kind
RECURSIVE Picked(_, _, _, _)
Picked(paths, outcomes, kind, k) ==
    IF k > Len(outcomes) THEN <<>>
    ELSE (IF outcomes[k] = kind THEN <<paths[k]>> ELSE <<>>)
            \o Picked(paths, outcomes, kind, k + 1)

\* the image_path entries of a results or errors list
ImagePaths(list) == [k \in 1..Len(list) |-> list[k].image_path]

\* C21: process isolates errors per image: parse is attempted once for
\* every path, in input order; a path whose parse raises an Exception adds
\* one entry to errors and does not stop the later paths; every path ends
\* in exactly one of results or errors; both lists keep the input order;
\* total = succeeded + failed = number of input paths.
C21_ErrorsIsolatedPerImage ==
    /\ [](batch.pc # "idle" =>
            /\ IsPrefix(batch.attempts, batch.paths)
            /\ Len(batch.attempts) = Len(batch.outcomes)
                  + (IF batch.pc \in {"parsing", "raised"} THEN 1 ELSE 0)
            /\ ImagePaths(batch.results) =
                  Picked(batch.paths, batch.outcomes, "results", 1)
            /\ ImagePaths(batch.errors) =
                  Picked(batch.paths, batch.outcomes, "errors", 1)
            /\ batch.pc = "raised" => ~IsException(batch.exc)
            /\ batch.pc = "done" =>
                  /\ batch.attempts = batch.paths
                  /\ Len(batch.outcomes) = Len(batch.paths)
                  /\ Total(batch) = NumSucceeded(batch) + Failed(batch)
                  /\ Total(batch) = Len(batch.paths))
    /\ [][(batch.pc = "parsing" /\ parser.pc = "done" /\ batch' # batch) =>
            IF parser.outcome.kind = "card"
            THEN /\ batch'.results =
                        Append(batch.results, [image_path |-> batch.paths[batch.i]])
                 /\ batch'.errors = batch.errors
                 /\ batch'.pc = "loop"
            ELSE IsException(parser.outcome.exc) =>
                 /\ batch'.errors =
                        Append(batch.errors, [image_path |-> batch.paths[batch.i],
                                              error |-> parser.outcome.msg])
                 /\ batch'.results = batch.results
                 /\ batch'.pc = "loop"]_vars

\* process returned for three paths of which the second failed with the
\* missing-text ValueError and the two others gave a card
C21_Witness ==
    /\ batch.pc = "done"
    /\ batch.paths = <<"a.jpg", "b.png", "a.jpg">>
    /\ batch.results = <<[image_path |-> "a.jpg"], [image_path |-> "a.jpg"]>>
    /\ batch.errors = <<[image_path |-> "b.png",
                         error |-> "OCR extracted no text from the image"]>>
    /\ Total(batch) = 3

====
